---- MODULE Spec2Model ----
(***************************************************************************)
(* Run-control core of the EDA board readout (src/eda/device.c): the       *)
(* configuration calls, device_initialize, device_start, the two variants  *)
(* of device_loop, the DIF exchange and device_stop, together with the     *)
(* asynchronous cancellation flag g_state.                                 *)
(***************************************************************************)
EXTENDS Integers, Sequences, FiniteSets, TLC

(* ------------------------------ bounds -------------------------------- *)
\* number of RFM slots of the model (fpga.h fixes the board's value)
NB_RFM == 2
\* largest detector-interface id and shaper value passed to the boot calls
MaxDif == 2
MaxShaper == 2
\* cycles a run of the model may complete
MaxCycles == 2
\* in one cycle the hardware delivers, for slot s, 0 .. MaxSeg units of
\* 5 * (NB_RFM - s) bytes
MaxSeg == 1

(* ------------------------- program constants -------------------------- *)
\* retry budget of the PLL-lock poll
PllMaxPoll == 100
\* initial value of the local dcc_cmd of device_start_run_dcc
DccCmdIdle == 14
\* the reset-bunch-id command word (fpga.h)
CMD_RESET_BCID == 1

Slots == 0 .. (NB_RFM - 1)
DifIds == 0 .. MaxDif
Shapers == 0 .. MaxShaper
TrigModes == {0, 1}
NoAddr == "null"
Addrs == {"a1", "a2"}
Ports == {8877}

VARIABLES
  pc,         \* position of the control thread
  g_state,    \* cancellation flag: 1 running, 0 cancel requested
  rshaper,    \* ctx->rshaper
  rfm_on,     \* ctx->rfm_on (bit mask)
  trig_mode,  \* ctx->trig_mode
  cfg_mode,   \* ctx->cfg_mode
  task,       \* ctx->task[slot]: dif, rshaper, addr, port, sck, beg, end, rc
  ret,        \* the last API call that returned: its name, the shaper value
              \* it was given (device_boot_rfm) and its result
  boot_all,   \* history: shaper values passed to the device_boot_rfm calls so far
  boot_ok,    \* history: shaper values of the device_boot_rfm calls that succeeded
  mem_fd,     \* ctx->mem_fd (0: not mapped)
  cnt_poll,   \* local cnt_poll of device_init_fpga
  pll_seen,   \* history: some poll of device_init_fpga read the PLL as locked
  lanes,      \* hardware: the module lanes switched on (RFM_on, RFM_enable)
  hrsc,       \* hardware: the modules whose slow control was pushed
  conn,       \* network: the slots whose socket is connected
  daq_file,   \* ctx->daq_file: "null" or "open"
  nclose,     \* history: fclose calls made on an open run file
  file,       \* bytes of the local run file
  cycle_id,   \* ctx->cycle_id
  buf,        \* the memory of the cycle buffer
  buf_len,    \* the bytes of buf filled since the last DAQ_reset_buffer
  idx,        \* loop index rfm_index / i of the loop in progress
  dcc_cmd,    \* local dcc_cmd of device_start_run_dcc
  ops,        \* hardware, file and network operations of the API call or loop
              \* iteration in progress, in order
  xchg,       \* the DIF exchange just made: its slot, its result and its
              \* send/recv calls in order (NoXchg once the loop body ends)
  cyc_bufs    \* history: the cycle buffer of each completed cycle, as it was
              \* when the loop left the buffering stage

cfgvars == <<rshaper, rfm_on, trig_mode, cfg_mode, boot_all, boot_ok>>
initvars == <<mem_fd, cnt_poll, pll_seen, lanes, hrsc, conn>>
runvars == <<daq_file, nclose, file, cycle_id, buf, buf_len, idx, dcc_cmd,
            xchg, cyc_bufs>>
vars == <<pc, g_state, task, ret, ops, cfgvars, initvars, runvars>>

\* bit `slot` of the mask m: ((m >> slot) & 1)
Bit(m, slot) == (m \div (2 ^ slot)) % 2

\* m | (1 << slot)
SetBit(m, slot) == IF Bit(m, slot) = 1 THEN m ELSE m + 2 ^ slot

\* the slots whose bit is set in rfm_on
Active(m) == {s \in Slots : Bit(m, s) = 1}

Ret(op, arg, rc) == [op |-> op, arg |-> arg, rc |-> rc]

NoXchg == [slot |-> -1, rc |-> 0, ev |-> <<>>]

Task0 == [dif |-> 0, rshaper |-> 0, addr |-> NoAddr, port |-> 0, sck |-> 0,
          beg |-> 0, end |-> 0, rc |-> 0]

\* new_device: calloc'ed context, cfg_mode "csv", g_state 1
Init ==
  /\ pc = "created"
  /\ g_state = 1
  /\ rshaper = 0
  /\ rfm_on = 0
  /\ trig_mode = 0
  /\ cfg_mode = "csv"
  /\ task = [s \in Slots |-> Task0]
  /\ ret = Ret("none", 0, 0)
  /\ boot_all = {} /\ boot_ok = {}
  /\ mem_fd = 0 /\ cnt_poll = 0 /\ pll_seen = FALSE
  /\ lanes = {} /\ hrsc = {} /\ conn = {}
  /\ daq_file = "null" /\ nclose = 0 /\ file = <<>>
  /\ cycle_id = 0 /\ buf = <<>> /\ buf_len = 0 /\ idx = 0 /\ dcc_cmd = 0
  /\ ops = <<>> /\ xchg = NoXchg /\ cyc_bufs = <<>>

\* device_boot_rfm without the shaper check (faulty variant)
device_boot_rfm_nocheck(dif, slot, rs, trig) ==
  /\ pc = "created"
  /\ rfm_on' = SetBit(rfm_on, slot)
  /\ task' = [task EXCEPT ![slot].dif = dif, ![slot].rshaper = rs]
  /\ rshaper' = rs /\ trig_mode' = trig /\ ret' = Ret("boot_rfm", rs, 0)
  /\ boot_all' = boot_all \cup {rs} /\ boot_ok' = boot_ok \cup {rs}
  /\ UNCHANGED <<pc, g_state, cfg_mode, ops, initvars, runvars>>

device_boot_rfm(dif, slot, rs, trig) ==
  /\ pc = "created"
  /\ rfm_on' = SetBit(rfm_on, slot)
  /\ task' = [task EXCEPT ![slot].dif = dif, ![slot].rshaper = rs]
  /\ boot_all' = boot_all \cup {rs}
  /\ IF rshaper # 0 /\ rshaper # rs
       THEN ret' = Ret("boot_rfm", rs, -1)
            /\ UNCHANGED <<rshaper, trig_mode, boot_ok>>
       ELSE rshaper' = rs /\ trig_mode' = trig /\ ret' = Ret("boot_rfm", rs, 0)
            /\ boot_ok' = boot_ok \cup {rs}
  /\ UNCHANGED <<pc, g_state, cfg_mode, ops, initvars, runvars>>

\* the search of device_configure_dif passing over the slots no boot call
\* gave an id to (faulty variant)
RECURSIVE FindDif_bound(_, _, _)
FindDif_bound(t, d, i) ==
  IF i >= NB_RFM THEN NB_RFM
  ELSE IF t[i].dif = d /\ t[i].dif # 0 THEN i ELSE FindDif_bound(t, d, i + 1)

\* first slot at or after i whose dif equals d, NB_RFM when there is none
RECURSIVE FindDif(_, _, _)
FindDif(t, d, i) ==
  IF i >= NB_RFM THEN NB_RFM
  ELSE IF t[i].dif = d THEN i ELSE FindDif(t, d, i + 1)

device_configure_dif(dif, addr, port) ==
  /\ pc = "created"
  /\ cfg_mode' = "db"
  /\ LET i == FindDif(task, dif, 0) IN
       IF i < NB_RFM
         THEN /\ task' = [task EXCEPT ![i].addr = addr, ![i].port = port]
              /\ ret' = Ret("configure_dif", dif, 0)
         ELSE /\ task' = task
              /\ ret' = Ret("configure_dif", dif, 1)
  /\ UNCHANGED <<pc, g_state, rshaper, rfm_on, trig_mode, boot_all, boot_ok,
                 ops, initvars, runvars>>

\* device_configure: the settings are stored before the base tables are
\* fetched and read; `ok` is the outcome of that fetch
device_configure(rs, rfm, ok) ==
  /\ pc = "created"
  /\ rshaper' = rs
  /\ rfm_on' = rfm
  /\ ret' = Ret("configure", 0, IF ok THEN 0 ELSE -1)
  /\ UNCHANGED <<pc, g_state, task, trig_mode, cfg_mode, boot_all, boot_ok,
                 ops, initvars, runvars>>

(* ----------------------- asynchronous cancellation -------------------- *)
handle_sigint ==
  /\ pc # "crashed"
  /\ g_state' = 0
  /\ UNCHANGED <<pc, task, ret, ops, cfgvars, initvars, runvars>>

device_stop_loop ==
  /\ pc # "crashed"
  /\ g_state' = 0
  /\ UNCHANGED <<pc, task, ret, ops, cfgvars, initvars, runvars>>

(* --------------------------- device_initialize ------------------------ *)
Op(o, a) == [op |-> o, arg |-> a]
OpN(o) == [op |-> o, arg |-> -1]

\* <<Op(o, i) : i active in m, i >= from>> in ascending slot order
RECURSIVE SlotOps(_, _, _)
SlotOps(o, m, from) ==
  IF from >= NB_RFM THEN <<>>
  ELSE (IF Bit(m, from) = 1 THEN <<Op(o, from)>> ELSE <<>>) \o SlotOps(o, m, from + 1)

\* RFM_on(i); RFM_enable(i) for each active slot, ascending
RECURSIVE LaneOps(_, _)
LaneOps(m, from) ==
  IF from >= NB_RFM THEN <<>>
  ELSE (IF Bit(m, from) = 1 THEN <<Op("RFM_on", from), Op("RFM_enable", from)>>
        ELSE <<>>) \o LaneOps(m, from + 1)

\* device_initialize up to the return of device_init_mmap
device_init_mmap ==
  /\ pc = "created"
  /\ \E ok \in BOOLEAN :
       IF ok
         THEN /\ mem_fd' = 1
              /\ pc' = "init_fpga"
              /\ ops' = <<OpN("SYNC_reset_fpga")>>
              /\ ret' = ret
         ELSE /\ mem_fd' = 0
              /\ pc' = "init_failed"
              /\ ops' = <<>>
              /\ ret' = Ret("initialize", 0, -1)
  /\ cnt_poll' = 0 /\ pll_seen' = FALSE
  /\ UNCHANGED <<g_state, task, cfgvars, lanes, hrsc, conn, runvars>>

\* the tail of device_init_fpga without the test of the retry budget (faulty variant)
InitFpgaAfterPoll_nocheck ==
  /\ lanes' = lanes \cup Active(rfm_on)
  /\ ops' = ops \o LaneOps(rfm_on, 0)
  /\ pc' = "init_hrsc"
  /\ ret' = ret

\* the tail of device_init_fpga once the poll loop is left
InitFpgaAfterPoll ==
  IF cnt_poll >= PllMaxPoll
    THEN /\ pc' = "init_failed"
         /\ ret' = Ret("initialize", 0, -1)
         /\ UNCHANGED <<lanes, ops>>
    ELSE /\ lanes' = lanes \cup Active(rfm_on)
         /\ ops' = ops \o LaneOps(rfm_on, 0) \o
                   (IF trig_mode = 0
                      THEN <<OpN("SYNC_select_command_dcc"),
                             OpN("SYNC_enable_dcc_busy"),
                             OpN("SYNC_enable_dcc_ramfull")>>
                      ELSE <<>>) \o
                   (IF trig_mode = 1 THEN <<OpN("SYNC_select_command_soft")>>
                    ELSE <<>>)
         /\ pc' = "init_hrsc"
         /\ ret' = ret

\* one evaluation of the poll loop's condition in device_init_fpga, and the
\* rest of the function when the loop is left; lck is what SYNC_pll_lck reads.
\* The local cnt_poll ends with the function.
device_init_fpga ==
  /\ pc = "init_fpga"
  /\ \E lck \in {0, 1} :
       /\ pll_seen' = (pll_seen \/ lck = 1)
       /\ IF lck = 0 /\ cnt_poll < PllMaxPoll
            THEN /\ cnt_poll' = cnt_poll + 1
                 /\ UNCHANGED <<pc, ret, lanes, ops>>
            ELSE /\ cnt_poll' = 0
                 /\ InitFpgaAfterPoll
  /\ UNCHANGED <<g_state, task, cfgvars, mem_fd, hrsc, conn, runvars>>

\* device_init_hrsc: pre is the opening of the history file (csv), f the
\* first active module whose slow control fails (NB_RFM: none), post the
\* copy of the history file (csv)
device_init_hrsc ==
  /\ pc = "init_hrsc"
  /\ \E pre \in BOOLEAN, f \in Active(rfm_on) \cup {NB_RFM}, post \in BOOLEAN :
       LET csv == cfg_mode = "csv"
           done == {s \in Active(rfm_on) : s < f}
       IN  IF csv /\ ~pre
             THEN /\ hrsc' = hrsc
                  /\ pc' = "init_failed" /\ ret' = Ret("initialize", 0, -1)
             ELSE /\ hrsc' = hrsc \cup done
                  /\ IF f < NB_RFM \/ (csv /\ ~post)
                       THEN pc' = "init_failed" /\ ret' = Ret("initialize", 0, -1)
                       ELSE pc' = "init_scks" /\ ret' = ret
  /\ ops' = ops \o <<OpN("HRSC_set_shaper_resis")>>
  /\ UNCHANGED <<g_state, task, cfgvars, mem_fd, cnt_poll, pll_seen, lanes, conn,
                 runvars>>

\* the descriptor socket() returns for slot s
Fd(s) == s + 3

\* the slots device_init_scks opens a socket for
Bound(t) == {s \in Slots : t[s].dif # 0}

\* device_init_scks: f is the first bound slot whose socket cannot be set up
\* (NB_RFM: none) and how it fails: socket(), inet_pton() or connect().
\* inet_pton on a slot with no address reads a null pointer.
device_init_scks ==
  /\ pc = "init_scks"
  /\ \E f \in Bound(task) \cup {NB_RFM}, how \in {"socket", "pton", "connect", "crash"} :
       LET nulls == {s \in Bound(task) : task[s].addr = NoAddr /\ s < f}
           opened == {s \in Bound(task) : s < f}
       IN  /\ nulls = {}
           /\ f = NB_RFM => how = "connect"
           /\ (f < NB_RFM /\ task[f].addr = NoAddr) => how # "connect"
           /\ (how = "crash") => (f < NB_RFM /\ task[f].addr = NoAddr)
           /\ task' = [s \in Slots |->
                         IF s \in opened THEN [task[s] EXCEPT !.sck = Fd(s)]
                         ELSE IF s = f
                           THEN [task[s] EXCEPT !.sck = IF how = "socket" THEN -1
                                                        ELSE Fd(s)]
                           ELSE task[s]]
           /\ conn' = conn \cup opened
           /\ ops' = ops \o [k \in 1 .. Cardinality(opened) |->
                               Op("connect", CHOOSE s \in opened :
                                    Cardinality({x \in opened : x < s}) = k - 1)]
           /\ IF f = NB_RFM
                THEN pc' = "initialized" /\ ret' = Ret("initialize", 0, 0)
                ELSE IF how = "crash"
                  THEN pc' = "crashed" /\ ret' = ret
                  ELSE pc' = "init_failed" /\ ret' = Ret("initialize", 0, -1)
  /\ UNCHANGED <<g_state, cfgvars, mem_fd, cnt_poll, pll_seen, lanes, hrsc, runvars>>

(* ------------------------------ device_start -------------------------- *)
\* device_init_run going on when fopen returned NULL (faulty variant)
device_init_run_noabort ==
  /\ pc = "initialized"
  /\ \E ok \in BOOLEAN :
       /\ daq_file' = (IF ok THEN "open" ELSE "null")
       /\ file' = <<>>
       /\ cycle_id' = 0
       /\ ops' = <<OpN("fopen"), OpN("SYNC_reset_hr")>>
       /\ pc' = "start_run"
       /\ ret' = ret
  /\ cyc_bufs' = <<>>
  /\ UNCHANGED <<g_state, task, cfgvars, initvars, nclose, buf, buf_len, idx, dcc_cmd,
                 xchg>>

\* device_start up to the return of device_init_run; ok is the outcome of
\* fopen(daq_filename, "w")
device_init_run ==
  /\ pc = "initialized"
  /\ \E ok \in BOOLEAN :
       IF ok
         THEN /\ daq_file' = "open"
              /\ file' = <<>>
              /\ cycle_id' = 0
              /\ ops' = <<OpN("fopen"), OpN("SYNC_reset_hr")>>
              /\ pc' = "start_run"
              /\ ret' = ret
         ELSE /\ daq_file' = "null"
              /\ ops' = <<>>
              /\ pc' = "start_failed"
              /\ ret' = Ret("start", 0, -1)
              /\ UNCHANGED <<file, cycle_id>>
  /\ cyc_bufs' = <<>>
  /\ UNCHANGED <<g_state, task, cfgvars, initvars, nclose, buf, buf_len, idx, dcc_cmd,
                 xchg>>

\* the command words the external command channel may show
Cmds == {DccCmdIdle, CMD_RESET_BCID, CMD_RESET_BCID + 1}

\* device_start dispatching to device_start_run_dcc: int dcc_cmd = 0xE
device_start_dcc ==
  /\ pc = "start_run" /\ trig_mode = 0
  /\ pc' = "dcc_inner"
  /\ dcc_cmd' = DccCmdIdle
  /\ UNCHANGED <<g_state, task, ret, ops, cfgvars, initvars, daq_file, nclose, file,
                 cycle_id, buf, buf_len, idx, xchg, cyc_bufs>>

\* one evaluation of the inner wait of device_start_run_dcc:
\* while (SYNC_dcc_cmd_mem() == dcc_cmd) { if (g_state == 0) break; }
device_start_run_dcc_inner ==
  /\ pc = "dcc_inner"
  /\ \E cmd \in Cmds :
       IF cmd = dcc_cmd /\ g_state # 0 THEN pc' = "dcc_inner" ELSE pc' = "dcc_read"
  /\ UNCHANGED <<g_state, task, ret, ops, cfgvars, initvars, runvars>>

\* the outer loop of device_start_run_dcc left on any command word (faulty
\* variant)
device_start_run_dcc_read_any ==
  /\ pc = "dcc_read"
  /\ \E cmd \in Cmds :
       /\ dcc_cmd' = cmd
       /\ pc' = "dcc_chk"
  /\ UNCHANGED <<g_state, task, ret, ops, cfgvars, initvars, daq_file, nclose, file,
                 cycle_id, buf, buf_len, idx, xchg, cyc_bufs>>

\* dcc_cmd = SYNC_dcc_cmd_mem(); if (g_state == 0) break; and the outer
\* loop's test
device_start_run_dcc_read ==
  /\ pc = "dcc_read"
  /\ \E cmd \in Cmds :
       /\ dcc_cmd' = cmd
       /\ IF g_state # 0 /\ cmd # CMD_RESET_BCID
            THEN pc' = "dcc_inner" ELSE pc' = "dcc_chk"
  /\ UNCHANGED <<g_state, task, ret, ops, cfgvars, initvars, daq_file, nclose, file,
                 cycle_id, buf, buf_len, idx, xchg, cyc_bufs>>

\* the rest of device_start_run_dcc returning 0 when cancelled (faulty
\* variant)
device_start_run_dcc_arm_clean ==
  /\ pc = "dcc_chk"
  /\ IF g_state = 0
       THEN /\ ret' = Ret("start", 0, 0)
            /\ pc' = "start_failed"
            /\ UNCHANGED <<ops, cycle_id>>
       ELSE /\ ops' = ops \o <<OpN("CNT_reset"), OpN("CNT_start")>> \o
                      SlotOps("DAQ_fifo_init", rfm_on, 0) \o
                      <<OpN("SYNC_fifo_arming")>>
            /\ cycle_id' = 0
            /\ ret' = Ret("start", 0, 0)
            /\ pc' = "started"
  /\ dcc_cmd' = 0
  /\ UNCHANGED <<g_state, task, cfgvars, initvars, daq_file, nclose, file, buf, buf_len,
                 idx, xchg, cyc_bufs>>

\* the rest of device_start_run_dcc after the wait; the local dcc_cmd ends
\* with the function
device_start_run_dcc_arm ==
  /\ pc = "dcc_chk"
  /\ IF g_state = 0
       THEN /\ ret' = Ret("start", 0, -1)
            /\ pc' = "start_failed"
            /\ UNCHANGED <<ops, cycle_id>>
       ELSE /\ ops' = ops \o <<OpN("CNT_reset"), OpN("CNT_start")>> \o
                      SlotOps("DAQ_fifo_init", rfm_on, 0) \o
                      <<OpN("SYNC_fifo_arming")>>
            /\ cycle_id' = 0
            /\ ret' = Ret("start", 0, 0)
            /\ pc' = "started"
  /\ dcc_cmd' = 0
  /\ UNCHANGED <<g_state, task, cfgvars, initvars, daq_file, nclose, file, buf, buf_len,
                 idx, xchg, cyc_bufs>>

device_start_run_noise ==
  /\ pc = "start_run" /\ trig_mode = 1
  /\ ops' = ops \o SlotOps("DAQ_fifo_init", rfm_on, 0) \o
            <<OpN("CNT_reset"), OpN("SYNC_reset_bcid"), OpN("SYNC_start_acq"),
              OpN("SYNC_fifo_arming")>>
  /\ cycle_id' = 0
  /\ ret' = Ret("start", 0, 0)
  /\ pc' = "started"
  /\ UNCHANGED <<g_state, task, cfgvars, initvars, daq_file, nclose, file, buf, buf_len,
                 idx, dcc_cmd, xchg, cyc_bufs>>

(* --------------------------- the DIF exchange ------------------------- *)
\* the byte the hardware holds at position p of slot s's segment in cycle c
DataByte(c, s, p) == (16 * (c + 1) + 4 * s + p) % 256

SegLens(s) == {k * 5 * (NB_RFM - s) : k \in 0 .. MaxSeg}

\* the filled part of the cycle buffer
Filled(b, len) == SubSeq(b, 1, len)

\* the n bytes of the buffer memory b from offset `from` on (the memory is a
\* zeroed static array: what was never written reads 0)
Mem(b, from, n) == [p \in 1 .. n |-> IF from + p <= Len(b) THEN b[from + p] ELSE 0]

\* device_daq_write_dif: the segment of n bytes of slot s is written to the
\* cycle buffer b at its fill mark len, and the slot's window is set to it
WriteDifBuf(b, len, c, s, n) ==
  [p \in 1 .. (IF Len(b) > len + n THEN Len(b) ELSE len + n) |->
     IF p > len /\ p <= len + n THEN DataByte(c, s, p - len) ELSE b[p]]
WriteDifTask(t, len, s, n) == [t EXCEPT ![s].beg = len, ![s].end = len + n]

TagHDR == <<72, 68, 82>>
StrACK == <<65, 67, 75>>

\* strcmp(b, lit) == 0 for a literal lit: the bytes of lit, then a NUL
RECURSIVE StrcmpEq(_, _, _)
StrcmpEq(b, lit, k) ==
  IF k > Len(b) THEN FALSE
  ELSE IF k > Len(lit) THEN b[k] = 0
  ELSE b[k] = lit[k] /\ StrcmpEq(b, lit, k + 1)

\* what a recv(sck, buf, 4, 0) may deliver: n is its result
AckData == {StrACK \o <<0>>, StrACK \o <<10>>, <<78, 65, 75, 0>>, StrACK}
RecvOutcomes == {[n |-> Len(d), data |-> d] : d \in AckData} \cup
                {[n |-> -1, data |-> <<>>]}

\* buf after a recv that delivered d into its first bytes
RecvInto(b, d) == d \o SubSeq(b, Len(d) + 1, Len(b))

\* the 8-byte header of device_daq_send_dif for a payload of `size` bytes
Header(size) ==
  TagHDR \o <<0, size % 256, (size \div 256) % 256, (size \div 65536) % 256,
              (size \div 16777216) % 256>>

\* the payload size taken as the window's end offset (faulty variant)
DifSize_end(t, slot) == t[slot].end

\* ctx->task[slot].end - ctx->task[slot].beg; end is never below beg and a
\* window is far shorter than 2^32 bytes, so the uint32_t keeps the value
DifSize(t, slot) == t[slot].end - t[slot].beg

SendEv(sck, d, ok) == [op |-> "send", sck |-> sck, data |-> d,
                       res |-> IF ok THEN Len(d) ELSE -1]
RecvEv(sck, r) == [op |-> "recv", sck |-> sck, data |-> r.data, res |-> r.n]

\* the acknowledgment test comparing the first three bytes only (faulty variant)
AckOk_first3(b, r) == r.n = 4 /\ SubSeq(RecvInto(b, r.data), 1, 3) = StrACK

\* ret == 4 && strcmp((const char *)buf, "ACK") == 0
AckOk(b, r) == r.n = 4 /\ StrcmpEq(RecvInto(b, r.data), StrACK, 1)

NetOutcomes == [hs : BOOLEAN, a1 : RecvOutcomes, ps : BOOLEAN, a2 : RecvOutcomes]

\* device_daq_send_dif going on to the payload after a rejected header
\* acknowledgment (faulty variant)
device_daq_send_dif_noabort(t, b, slot, net) ==
  LET sck == t[slot].sck
      size == DifSize(t, slot)
      hdr == Header(size)
      e1 == SendEv(sck, hdr, net.hs)
      r1 == RecvEv(sck, net.a1)
      buf1 == RecvInto(hdr, net.a1.data)
      e2 == SendEv(sck, Mem(b, t[slot].beg, size), net.ps)
      r2 == RecvEv(sck, net.a2)
  IN  IF ~net.hs THEN [rc |-> -1, wire |-> <<e1>>]
      ELSE IF size = 0 THEN [rc |-> 0, wire |-> <<e1, r1>>]
      ELSE IF ~AckOk(buf1, net.a2) THEN [rc |-> 1, wire |-> <<e1, r1, e2, r2>>]
      ELSE [rc |-> 0, wire |-> <<e1, r1, e2, r2>>]

\* device_daq_send_dif without the early return on an empty window (faulty
\* variant)
device_daq_send_dif_always2(t, b, slot, net) ==
  LET sck == t[slot].sck
      size == DifSize(t, slot)
      hdr == Header(size)
      e1 == SendEv(sck, hdr, net.hs)
      r1 == RecvEv(sck, net.a1)
      buf1 == RecvInto(hdr, net.a1.data)
      e2 == SendEv(sck, Mem(b, t[slot].beg, size), net.ps)
      r2 == RecvEv(sck, net.a2)
  IN  IF ~net.hs THEN [rc |-> -1, wire |-> <<e1>>]
      ELSE IF ~AckOk(hdr, net.a1) THEN [rc |-> 1, wire |-> <<e1, r1>>]
      ELSE IF ~AckOk(buf1, net.a2) THEN [rc |-> 1, wire |-> <<e1, r1, e2, r2>>]
      ELSE [rc |-> 0, wire |-> <<e1, r1, e2, r2>>]

\* device_daq_send_dif: its result and the send/recv calls it makes, for the
\* outcomes net of those calls
device_daq_send_dif(t, b, slot, net) ==
  LET sck == t[slot].sck
      size == DifSize(t, slot)
      hdr == Header(size)
      e1 == SendEv(sck, hdr, net.hs)
      r1 == RecvEv(sck, net.a1)
      buf1 == RecvInto(hdr, net.a1.data)
      data == Mem(b, t[slot].beg, size)
      e2 == SendEv(sck, data, net.ps)
      r2 == RecvEv(sck, net.a2)
  IN  IF ~net.hs THEN [rc |-> -1, wire |-> <<e1>>]
      ELSE IF ~AckOk(hdr, net.a1) THEN [rc |-> 1, wire |-> <<e1, r1>>]
      ELSE IF size = 0 THEN [rc |-> 0, wire |-> <<e1, r1>>]
      ELSE IF ~AckOk(buf1, net.a2) THEN [rc |-> 1, wire |-> <<e1, r1, e2, r2>>]
      ELSE [rc |-> 0, wire |-> <<e1, r1, e2, r2>>]

(* ------------------------------ device_loop --------------------------- *)
\* the next slot at or after i whose bit is set in m (NB_RFM: none): the
\* `continue` of the for loops over the slots
RECURSIVE NextActive(_, _)
NextActive(m, i) ==
  IF i >= NB_RFM THEN NB_RFM
  ELSE IF Bit(m, i) = 1 THEN i ELSE NextActive(m, i + 1)

\* device_loop dispatching on the trigger mode
device_loop ==
  /\ pc = "started"
  /\ pc' = IF trig_mode \in {0, 1} THEN "loop_top" ELSE "loop_done"
  /\ ops' = <<>>
  /\ UNCHANGED <<g_state, task, ret, cfgvars, initvars, runvars>>

\* while (g_state == 1) { DAQ_reset_buffer(); ... of either loop
LoopTop ==
  /\ pc = "loop_top"
  /\ IF g_state = 1
       THEN /\ cycle_id < MaxCycles
            /\ buf_len' = 0
            /\ ops' = <<OpN("DAQ_reset_buffer")>>
            /\ pc' = "wait_start"
       ELSE /\ pc' = "loop_done"
            /\ UNCHANGED <<buf_len, ops>>
  /\ UNCHANGED <<g_state, task, ret, cfgvars, initvars, daq_file, nclose, file,
                 cycle_id, buf, idx, dcc_cmd, xchg, cyc_bufs>>

device_loop_dcc_top == trig_mode = 0 /\ LoopTop
device_loop_noise_top == trig_mode = 1 /\ LoopTop

\* one evaluation of while ((flag() == 0) && (g_state == 1)) at position at;
\* v is what the hardware flag reads
PollWait(at, chk, flag) ==
  /\ pc = at
  /\ \E v \in {0, 1} :
       IF v = 0 /\ g_state = 1
         THEN UNCHANGED <<pc, ops>>
         ELSE /\ pc' = chk
              /\ ops' = IF v # 0 THEN Append(ops, OpN(flag)) ELSE ops
  /\ UNCHANGED <<g_state, task, ret, cfgvars, initvars, runvars>>

\* the test after a wait without its break (faulty variant)
BreakCheck_nobreak(at, next, op) ==
  /\ pc = at
  /\ pc' = next
  /\ ops' = ops \o op
  /\ idx' = 0
  /\ UNCHANGED <<g_state, task, ret, cfgvars, initvars, daq_file, nclose, file,
                 cycle_id, buf, buf_len, dcc_cmd, xchg, cyc_bufs>>

\* if (g_state == 0) break; after a wait, then the call op (if any) that
\* follows it
BreakCheck(at, next, op) ==
  /\ pc = at
  /\ IF g_state = 0
       THEN pc' = "loop_done" /\ ops' = ops
       ELSE pc' = next /\ ops' = ops \o op
  /\ idx' = 0
  /\ UNCHANGED <<g_state, task, ret, cfgvars, initvars, daq_file, nclose, file,
                 cycle_id, buf, buf_len, dcc_cmd, xchg, cyc_bufs>>

device_loop_dcc_wait_ro ==
  trig_mode = 0 /\ PollWait("wait_start", "chk_start", "SYNC_fpga_ro")
device_loop_dcc_chk_ro ==
  trig_mode = 0 /\ BreakCheck("chk_start", "wait_ready", <<>>)
device_loop_dcc_wait_fifo ==
  trig_mode = 0 /\ PollWait("wait_ready", "chk_ready", "SYNC_fifo_ready")
device_loop_dcc_chk_fifo ==
  trig_mode = 0 /\ BreakCheck("chk_ready", "buffering", <<>>)

device_loop_noise_wait_ramfull ==
  trig_mode = 1 /\ PollWait("wait_start", "chk_start", "SYNC_ramfull")
\* the Soft loop going from the ramfull wait to the FIFO wait without
\* SYNC_ramfull_ext (faulty variant)
device_loop_noise_chk_ramfull_noext ==
  trig_mode = 1 /\ BreakCheck("chk_start", "wait_ready", <<>>)

device_loop_noise_chk_ramfull ==
  trig_mode = 1 /\ BreakCheck("chk_start", "wait_ready", <<OpN("SYNC_ramfull_ext")>>)
device_loop_noise_wait_fifo ==
  trig_mode = 1 /\ PollWait("wait_ready", "chk_ready", "SYNC_fifo_ready")
device_loop_noise_chk_fifo ==
  trig_mode = 1 /\ BreakCheck("chk_ready", "buffering", <<>>)

\* one pass of the buffering loop of either variant: device_daq_write_dif on
\* the next active slot, then if (g_state == 0) break;
Buffering ==
  /\ pc = "buffering"
  /\ NextActive(rfm_on, idx) < NB_RFM
  /\ LET i == NextActive(rfm_on, idx) IN
       \E n \in SegLens(i) :
         /\ buf' = WriteDifBuf(buf, buf_len, cycle_id, i, n)
         /\ buf_len' = buf_len + n
         /\ task' = WriteDifTask(task, buf_len, i, n)
         /\ ops' = Append(ops, Op("device_daq_write_dif", i))
         /\ idx' = i + 1
         /\ pc' = IF g_state = 0 THEN "ack" ELSE "buffering"
  /\ UNCHANGED <<g_state, ret, cfgvars, initvars, daq_file, nclose, file, cycle_id,
                 dcc_cmd, xchg, cyc_bufs>>

device_loop_dcc_buffering == trig_mode = 0 /\ Buffering
device_loop_noise_buffering == trig_mode = 1 /\ Buffering

\* the buffering loop is over (all slots seen, or left by the break)
BufferingOver ==
  \/ pc = "ack"
  \/ pc = "buffering" /\ NextActive(rfm_on, idx) = NB_RFM

\* DAQ_write_buffer(f): the filled part of the cycle buffer is appended to
\* the file
DAQ_write_buffer(f, b, len) == f \o Filled(b, len)

\* SYNC_fifo_ack(); DAQ_write_buffer(ctx->daq_file); of the Dcc loop
device_loop_dcc_write ==
  /\ trig_mode = 0
  /\ BufferingOver
  /\ file' = DAQ_write_buffer(file, buf, buf_len)
  /\ ops' = ops \o <<OpN("SYNC_fifo_ack"), OpN("DAQ_write_buffer")>>
  /\ cyc_bufs' = Append(cyc_bufs, Filled(buf, buf_len))
  /\ idx' = 0
  /\ pc' = "send"
  /\ UNCHANGED <<g_state, task, ret, cfgvars, initvars, daq_file, nclose, cycle_id,
                 buf, buf_len, dcc_cmd, xchg>>

\* SYNC_fifo_ack(); of the Soft loop
device_loop_noise_ack ==
  /\ trig_mode = 1
  /\ BufferingOver
  /\ ops' = ops \o <<OpN("SYNC_fifo_ack")>>
  /\ cyc_bufs' = Append(cyc_bufs, Filled(buf, buf_len))
  /\ idx' = 0
  /\ pc' = "send"
  /\ UNCHANGED <<g_state, task, ret, cfgvars, initvars, daq_file, nclose, file,
                 cycle_id, buf, buf_len, dcc_cmd, xchg>>

\* one pass of the streaming loop storing the result of the exchange whatever
\* it is (faulty variant)
Streaming_store ==
  /\ pc = "send"
  /\ NextActive(rfm_on, idx) < NB_RFM
  /\ LET i == NextActive(rfm_on, idx) IN
       \E net \in NetOutcomes :
         LET r == device_daq_send_dif(task, buf, i, net) IN
           /\ xchg' = [slot |-> i, rc |-> r.rc, ev |-> r.wire]
           /\ task' = [task EXCEPT ![i].rc = r.rc]
           /\ ops' = Append(ops, Op("device_daq_send_dif", i))
           /\ idx' = i + 1
  /\ UNCHANGED <<pc, g_state, ret, cfgvars, initvars, daq_file, nclose, file,
                 cycle_id, buf, buf_len, dcc_cmd, cyc_bufs>>

\* one pass of the streaming loop of either variant on the next active slot
Streaming ==
  /\ pc = "send"
  /\ NextActive(rfm_on, idx) < NB_RFM
  /\ LET i == NextActive(rfm_on, idx) IN
       \E net \in NetOutcomes :
         LET r == device_daq_send_dif(task, buf, i, net) IN
           /\ xchg' = [slot |-> i, rc |-> r.rc, ev |-> r.wire]
           /\ task' = IF r.rc # 0 THEN [task EXCEPT ![i].rc = r.rc] ELSE task
           /\ ops' = Append(ops, Op("device_daq_send_dif", i))
           /\ idx' = i + 1
  /\ UNCHANGED <<pc, g_state, ret, cfgvars, initvars, daq_file, nclose, file,
                 cycle_id, buf, buf_len, dcc_cmd, cyc_bufs>>

device_loop_dcc_send == trig_mode = 0 /\ Streaming
device_loop_noise_send == trig_mode = 1 /\ Streaming

\* the end of the Dcc loop body without ctx->cycle_id++ (faulty variant)
device_loop_dcc_next_noinc ==
  /\ trig_mode = 0
  /\ pc = "send" /\ NextActive(rfm_on, idx) = NB_RFM
  /\ pc' = "loop_top"
  /\ idx' = 0 /\ xchg' = NoXchg
  /\ UNCHANGED <<g_state, task, ret, ops, cfgvars, initvars, daq_file, nclose, file,
                 cycle_id, buf, buf_len, dcc_cmd, cyc_bufs>>

\* ctx->cycle_id++ at the end of the Dcc loop body
device_loop_dcc_next ==
  /\ trig_mode = 0
  /\ pc = "send" /\ NextActive(rfm_on, idx) = NB_RFM
  /\ cycle_id' = cycle_id + 1
  /\ pc' = "loop_top"
  /\ idx' = 0 /\ xchg' = NoXchg
  /\ UNCHANGED <<g_state, task, ret, ops, cfgvars, initvars, daq_file, nclose, file,
                 buf, buf_len, dcc_cmd, cyc_bufs>>

\* SYNC_start_acq(); ctx->cycle_id++ at the end of the Soft loop body
device_loop_noise_next ==
  /\ trig_mode = 1
  /\ pc = "send" /\ NextActive(rfm_on, idx) = NB_RFM
  /\ ops' = Append(ops, OpN("SYNC_start_acq"))
  /\ cycle_id' = cycle_id + 1
  /\ pc' = "loop_top"
  /\ idx' = 0 /\ xchg' = NoXchg
  /\ UNCHANGED <<g_state, task, ret, cfgvars, initvars, daq_file, nclose, file,
                 buf, buf_len, dcc_cmd, cyc_bufs>>

(* ------------------------------ device_stop --------------------------- *)
StopOps ==
  (IF trig_mode = 0 THEN <<OpN("CNT_stop")>> ELSE <<>>) \o
  (IF trig_mode = 1 THEN <<OpN("SYNC_stop_acq"), OpN("CNT_stop")>> ELSE <<>>) \o
  <<OpN("CNT_reset"), OpN("SYNC_reset_fpga"), OpN("SYNC_reset_hr")>>

\* device_stop. fclose of a null FILE* is undefined: the call either faults or
\* returns
device_stop ==
  /\ pc \in {"start_failed", "loop_done", "stopped"}
  /\ ops' = StopOps \o <<OpN("fclose")>>
  /\ IF daq_file = "open"
       THEN /\ nclose' = nclose + 1
            /\ daq_file' = "null"
            /\ ret' = Ret("stop", 0, 0)
            /\ pc' = "stopped"
       ELSE /\ UNCHANGED <<nclose, daq_file>>
            /\ \E fault \in BOOLEAN :
                 IF fault THEN pc' = "crashed" /\ ret' = ret
                 ELSE pc' = "stopped" /\ ret' = Ret("stop", 0, 0)
  /\ UNCHANGED <<g_state, task, cfgvars, initvars, file, cycle_id, buf, buf_len,
                 idx, dcc_cmd, xchg, cyc_bufs>>

(* --------------------------- specifications --------------------------- *)
CfgNext ==
  \/ \E dif \in DifIds, slot \in Slots, rs \in Shapers, trig \in TrigModes :
       device_boot_rfm(dif, slot, rs, trig)
  \/ \E dif \in DifIds, addr \in Addrs, port \in Ports :
       device_configure_dif(dif, addr, port)

SpecCfg == Init /\ [][CfgNext]_vars

\* the configuration calls of the life-cycle specification: each slot is
\* booted with its own detector-interface id and bound to one address
RunConfig ==
  \/ \E slot \in Slots, trig \in TrigModes :
       device_boot_rfm(slot + 1, slot, MaxShaper, trig)
  \/ \E slot \in Slots :
       device_configure_dif(slot + 1, "a1", 8877)
  \/ \E rfm \in 0 .. (2 ^ NB_RFM - 1), ok \in BOOLEAN :
       device_configure(MaxShaper, rfm, ok)

Next ==
  \/ RunConfig
  \/ handle_sigint
  \/ device_stop_loop
  \/ device_init_mmap
  \/ device_init_fpga
  \/ device_init_hrsc
  \/ device_init_scks
  \/ device_init_run
  \/ device_start_dcc
  \/ device_start_run_dcc_inner
  \/ device_start_run_dcc_read
  \/ device_start_run_dcc_arm
  \/ device_start_run_noise
  \/ device_loop
  \/ device_loop_dcc_top
  \/ device_loop_dcc_wait_ro
  \/ device_loop_dcc_chk_ro
  \/ device_loop_dcc_wait_fifo
  \/ device_loop_dcc_chk_fifo
  \/ device_loop_dcc_buffering
  \/ device_loop_dcc_write
  \/ device_loop_dcc_send
  \/ device_loop_dcc_next
  \/ device_loop_noise_top
  \/ device_loop_noise_wait_ramfull
  \/ device_loop_noise_chk_ramfull
  \/ device_loop_noise_wait_fifo
  \/ device_loop_noise_chk_fifo
  \/ device_loop_noise_buffering
  \/ device_loop_noise_ack
  \/ device_loop_noise_send
  \/ device_loop_noise_next
  \/ device_stop

Spec == Init /\ [][Next]_vars

\* the steps of device_loop; the control thread keeps running
LoopStep ==
  \/ device_loop
  \/ device_loop_dcc_top \/ device_loop_dcc_wait_ro \/ device_loop_dcc_chk_ro
  \/ device_loop_dcc_wait_fifo \/ device_loop_dcc_chk_fifo
  \/ device_loop_dcc_buffering \/ device_loop_dcc_write
  \/ device_loop_dcc_send \/ device_loop_dcc_next
  \/ device_loop_noise_top \/ device_loop_noise_wait_ramfull
  \/ device_loop_noise_chk_ramfull \/ device_loop_noise_wait_fifo
  \/ device_loop_noise_chk_fifo \/ device_loop_noise_buffering
  \/ device_loop_noise_ack \/ device_loop_noise_send \/ device_loop_noise_next

FairSpec == Spec /\ WF_vars(LoopStep)

(* ------------------------------ properties ---------------------------- *)
InLoop == pc \in {"loop_top", "wait_start", "chk_start", "wait_ready", "chk_ready",
                  "buffering", "ack", "send"}

\* position of the first operation named o in the log l (0: none)
FirstOp(l, o) ==
  IF \E k \in 1 .. Len(l) : l[k].op = o
    THEN CHOOSE k \in 1 .. Len(l) : l[k].op = o /\ \A j \in 1 .. (k - 1) : l[j].op # o
    ELSE 0

RECURSIVE Flatten(_)
Flatten(ss) == IF ss = <<>> THEN <<>> ELSE Head(ss) \o Flatten(Tail(ss))

(* C1: in every cycle of device_loop that reaches the streaming stage, in   *)
(* both trigger modes, the cycle buffer is written to the local run file    *)
(* before the first DIF exchange of that cycle is attempted.                *)
C1_WriteBeforeStream ==
  (InLoop /\ FirstOp(ops, "device_daq_send_dif") > 0) =>
     /\ FirstOp(ops, "DAQ_write_buffer") > 0
     /\ FirstOp(ops, "DAQ_write_buffer") < FirstOp(ops, "device_daq_send_dif")

(* C2: after N completed cycles (cycle_id = N), in either trigger mode, the *)
(* bytes of the local run file are the concatenation, in order, of the N    *)
(* cycle buffers as they were when each cycle left the buffering stage.     *)
C2_FileIsConcat ==
  (pc \in {"loop_top", "loop_done"}) =>
     /\ Len(cyc_bufs) = cycle_id
     /\ file = Flatten(cyc_bufs)

\* a send or recv of the exchange x failed in transport, or an acknowledgment
\* was short or did not start with "ACK"
ExchangeFailed(x) ==
  \E k \in 1 .. Len(x.ev) :
    \/ x.ev[k].res = -1
    \/ x.ev[k].op = "recv" /\ (x.ev[k].res # 4 \/ SubSeq(x.ev[k].data, 1, 3) # StrACK)

(* C3: when the DIF exchange of an active module k fails (transport failure *)
(* or bad acknowledgment), the failure is recorded as a non-zero rc on task *)
(* k only, the local file is unaffected, and the loop stays in its streaming*)
(* stage (the other modules and the cycle counter still follow).            *)
C3_FailureIsolated ==
  [][(pc = "send" /\ xchg' # xchg /\ xchg'.slot >= 0 /\ ExchangeFailed(xchg')) =>
       /\ task'[xchg'.slot].rc # 0
       /\ \A j \in Slots \ {xchg'.slot} : task'[j] = task[j]
       /\ file' = file
       /\ pc' = "send" /\ cycle_id' = cycle_id]_vars

\* the slots buffered before the file write in the log l
BufferedBeforeWrite(l) ==
  {l[k].arg : k \in {j \in 1 .. FirstOp(l, "DAQ_write_buffer") :
                       l[j].op = "device_daq_write_dif"}}

(* C4: whenever the cancellation flag is set, also during the per-module    *)
(* buffering, a cycle record written to the local run file holds the        *)
(* segments of all active modules: fully buffered and written, or nothing.  *)
C4_NoPartialRecord ==
  (InLoop /\ FirstOp(ops, "DAQ_write_buffer") > 0) =>
     BufferedBeforeWrite(ops) = Active(rfm_on)

(* C5: if the cancellation flag is set while the loop is in a hardware wait *)
(* (readout-started, ramfull or FIFO-ready), the next poll ends the wait    *)
(* whatever the hardware flag reads, and device_loop returns without        *)
(* buffering, writing or streaming for that iteration; so the loop exits    *)
(* once cancellation is requested, even if the board never responds.        *)
C5_CancelEndsWait ==
  /\ [][(g_state = 0 /\ pc \in {"wait_start", "wait_ready"}) =>
          /\ pc' = (IF pc = "wait_start" THEN "chk_start" ELSE "chk_ready")
          /\ UNCHANGED <<task, file, buf, buf_len, xchg, cyc_bufs, cycle_id>>]_vars
  /\ [][(g_state = 0 /\ pc \in {"chk_start", "chk_ready"}) =>
          /\ pc' = "loop_done"
          /\ UNCHANGED <<task, file, buf, buf_len, xchg, cyc_bufs, cycle_id, ops>>]_vars
  /\ ((g_state = 0 /\ pc \in {"wait_start", "wait_ready"}) ~> (pc = "loop_done"))

\* the loop has returned from a wait it was cancelled in
C5_Witness ==
  /\ pc = "loop_done" /\ g_state = 0
  /\ Len(ops) >= 1 /\ ops[Len(ops)].op \in {"DAQ_reset_buffer", "SYNC_ramfull_ext"}
  /\ cycle_id >= 1

(* C6: device_stop is idempotent: a second call in a row, and a call after  *)
(* a start that never opened the run file, returns success, closes the run  *)
(* file at most once and leaves the device as the first call left it.       *)
C6_StopIdempotent ==
  [][(pc \in {"stopped", "start_failed"} /\ daq_file = "null" /\ pc' # pc) =>
       /\ pc' = "stopped"
       /\ ret'.op = "stop" /\ ret'.rc = 0
       /\ nclose' = nclose /\ daq_file' = "null"
       /\ nclose <= 1]_vars

(* C8: if the PLL-lock flag is never read as set, device_initialize ends    *)
(* after at most PllMaxPoll polls and returns an error, with no module lane *)
(* enabled, no slow control pushed and no connection opened.                *)
C8_NoLockNoInit ==
  (~pll_seen /\ pc # "created") =>
     /\ cnt_poll <= PllMaxPoll
     /\ lanes = {} /\ hrsc = {} /\ conn = {}
     /\ \A s \in Slots : task[s].sck = 0
     /\ pc \in {"init_fpga", "init_failed"}
     /\ pc = "init_failed" => (ret.op = "initialize" /\ ret.rc = -1)

\* the retry budget was used up on a device with a lane and a socket to set up
C8_Witness ==
  /\ pc = "init_failed" /\ ~pll_seen /\ mem_fd # 0
  /\ rfm_on # 0 /\ Bound(task) # {}

(* C9: whenever device_initialize returns an error, whichever step failed,  *)
(* no partial initialization is left active: in particular no connection    *)
(* opened before the failure remains open.                                  *)
C9_NoPartialInit ==
  (pc = "init_failed") =>
     /\ conn = {}
     /\ \A s \in Slots : task[s].sck <= 0

\* the exchange x met no fault: each send it made went through and each recv
\* delivered the 4 bytes 'A','C','K',0
FaultFree(x) ==
  \A k \in 1 .. Len(x.ev) :
    IF x.ev[k].op = "send" THEN x.ev[k].res = Len(x.ev[k].data)
    ELSE x.ev[k].res = 4 /\ x.ev[k].data = <<65, 67, 75, 0>>

(* C10: for a module window [beg, end) with end > beg, a fault-free DIF     *)
(* exchange is exactly: send the 8-byte header ('H','D','R', 0, end-beg as  *)
(* 4 bytes little-endian), receive an acknowledgment, send the end-beg      *)
(* bytes of the window, receive a second acknowledgment, return 0.          *)
C10_ExchangeSequence ==
  (xchg.slot >= 0 /\ FaultFree(xchg)
     /\ task[xchg.slot].end > task[xchg.slot].beg) =>
    LET t == task[xchg.slot]
        n == t.end - t.beg
        e == xchg.ev
    IN  /\ Len(e) = 4
        /\ e[1].op = "send" /\ e[3].op = "send" /\ e[2].op = "recv" /\ e[4].op = "recv"
        /\ e[1].data = <<72, 68, 82, 0, n % 256, (n \div 256) % 256,
                         (n \div 65536) % 256, (n \div 16777216) % 256>>
        /\ Len(e[3].data) = n
        /\ e[3].data = SubSeq(buf, t.beg + 1, t.end)
        /\ \A k \in 1 .. 4 : e[k].sck = t.sck
        /\ xchg.rc = 0

\* the windows [0,10) and [10,15): module 1's fault-free exchange of 5 bytes
C10_Witness ==
  /\ xchg.slot = 1 /\ FaultFree(xchg) /\ xchg.rc = 0
  /\ task[0].beg = 0 /\ task[0].end = 10
  /\ task[1].beg = 10 /\ task[1].end = 15
  /\ Len(xchg.ev) = 4 /\ xchg.ev[1].data[5] = 5 /\ Len(xchg.ev[3].data) = 5

(* C7 (as stated): in any sequence of device_boot_rfm calls, a call whose    *)
(* shaper value equals that of every earlier call succeeds, and a call whose *)
(* shaper value differs from a value recorded by an earlier successful call  *)
(* fails with -1, for every pair of distinct shaper values.                  *)
C7_AsStated ==
  [][(pc = "created" /\ ret'.op = "boot_rfm") =>
       /\ (boot_all \subseteq {ret'.arg}) => ret'.rc = 0
       /\ (\E v \in boot_ok : v # ret'.arg) => ret'.rc = -1]_vars

(* C7 (amended): a call whose shaper value equals that of every earlier call *)
(* succeeds, and a call whose shaper value differs from a non-zero value     *)
(* recorded by an earlier successful call fails with -1; a recorded value of *)
(* 0 counts as "not set": the call after it succeeds whatever its value.     *)
C7_ShaperConflict ==
  [][(pc = "created" /\ ret'.op = "boot_rfm") =>
       /\ (boot_all \subseteq {ret'.arg}) => ret'.rc = 0
       /\ (\E v \in boot_ok : v # ret'.arg /\ v # 0) => ret'.rc = -1
       /\ (boot_ok \subseteq {0}) => ret'.rc = 0]_vars

\* a boot call was rejected after an earlier call had recorded another value
C7_Witness ==
  /\ ret.op = "boot_rfm" /\ ret.rc = -1
  /\ \E v \in boot_ok : v # 0 /\ \E w \in boot_all \ boot_ok : w # v

\* the k-th call of the exchange x is a recv that the exchange rejected: it
\* is the last call made and the result is the protocol error 1
Rejected(x, k) == x.ev[k].op = "recv" /\ k = Len(x.ev) /\ x.rc = 1

\* the k-th call of x is a recv of 4 bytes starting with 'A','C','K'
StartsACK(x, k) ==
  x.ev[k].op = "recv" /\ x.ev[k].res = 4 /\ SubSeq(x.ev[k].data, 1, 3) = StrACK

(* C11 (as stated): a 4-byte acknowledgment whose first three bytes are      *)
(* 'A','C','K' is accepted at the header-ack and at the payload-ack step for *)
(* every value of the 4th byte.                                              *)
C11_AsStated ==
  (xchg.slot >= 0) =>
     \A k \in 1 .. Len(xchg.ev) : StartsACK(xchg, k) => ~Rejected(xchg, k)

(* C11 (amended): at both acknowledgment steps a received acknowledgment is  *)
(* accepted exactly when it is the 4 bytes 'A','C','K',0: the 4th byte is    *)
(* the terminator strcmp compares, and any other value of it is rejected     *)
(* with result 1.                                                            *)
C11_AckNeedsNul ==
  (xchg.slot >= 0) =>
     \A k \in 1 .. Len(xchg.ev) :
       (xchg.ev[k].op = "recv") =>
          (~Rejected(xchg, k) <=>
             (xchg.ev[k].res = 4 /\ xchg.ev[k].data = <<65, 67, 75, 0>>))

\* a payload acknowledgment 'A','C','K','\n' after an accepted header
\* acknowledgment
C11_Witness ==
  /\ xchg.slot >= 0 /\ Len(xchg.ev) = 4 /\ xchg.rc = 1
  /\ xchg.ev[2].data = <<65, 67, 75, 0>>
  /\ xchg.ev[4].res = 4 /\ xchg.ev[4].data = <<65, 67, 75, 10>>

\* the header acknowledgment of the exchange x was a short read or did not
\* start with 'A','C','K'
HeaderAckBad(x) ==
  /\ Len(x.ev) >= 2
  /\ (x.ev[2].res < 4 \/ SubSeq(x.ev[2].data, 1, 3) # StrACK)

(* C12: if the header acknowledgment is a short read or does not start with *)
(* 'ACK', the module's exchange ends there with the protocol error (result  *)
(* 1 on its task): no payload is sent and no second acknowledgment is read; *)
(* the loop stays in its streaming stage and the next exchange it makes is  *)
(* that of the next active module.                                          *)
C12_HeaderAckAbort ==
  /\ []((xchg.slot >= 0 /\ HeaderAckBad(xchg)) =>
          /\ Len(xchg.ev) = 2
          /\ xchg.rc = 1 /\ task[xchg.slot].rc = 1
          /\ pc = "send" /\ idx = xchg.slot + 1)
  /\ [][(xchg.slot >= 0 /\ HeaderAckBad(xchg) /\ ops' # ops
           /\ NextActive(rfm_on, idx) < NB_RFM) =>
          /\ ops' = Append(ops, Op("device_daq_send_dif", NextActive(rfm_on, idx)))
          /\ xchg'.slot = NextActive(rfm_on, idx)
          /\ Len(xchg'.ev) >= 1 /\ xchg'.ev[1].op = "send"]_vars

\* module 0's header acknowledgment was a short read while module 1 is active
C12_Witness ==
  /\ xchg.slot = 0 /\ Len(xchg.ev) = 2 /\ xchg.ev[2].res = 3
  /\ xchg.rc = 1 /\ Bit(rfm_on, 1) = 1

(* C13: if a send fails in transport at any step of a module's DIF exchange  *)
(* (header or payload), no further step of that exchange is performed, the   *)
(* module's result code is set to the transport error, and the module's      *)
(* connection stays open, its socket unchanged, for the next cycle.          *)
C13_SendFailureAborts ==
  (xchg.slot >= 0) =>
     \A k \in 1 .. Len(xchg.ev) :
       (xchg.ev[k].op = "send" /\ xchg.ev[k].res = -1) =>
          /\ k = Len(xchg.ev)
          /\ xchg.rc = -1 /\ task[xchg.slot].rc = -1
          /\ (xchg.slot \in Bound(task)) =>
                (xchg.slot \in conn /\ task[xchg.slot].sck = Fd(xchg.slot))

\* the step stores one of the bindings a caller may pass on slot i and
\* leaves every other slot, and every other field of slot i, as it was
StoresBinding(i) ==
  \E addr \in Addrs, port \in Ports :
    task' = [task EXCEPT ![i].addr = addr, ![i].port = port]

(* C14 (as stated): device_configure_dif(id, addr, port) succeeds and stores *)
(* addr and port on the task slot whose id equals id, leaving every other    *)
(* slot unchanged; if no registered (booted, id not 0) slot has that id it   *)
(* fails with the unknown-module error and changes no slot's binding.        *)
C14_AsStated ==
  [][(pc = "created" /\ ret'.op = "configure_dif" /\ cfg_mode' = "db") =>
       LET M == {s \in Slots : task[s].dif = ret'.arg /\ task[s].dif # 0 }
       IN  /\ (M # {}) => (ret'.rc = 0 /\ \E i \in M : StoresBinding(i))
           /\ (M = {}) => (ret'.rc = 1 /\ task' = task)]_vars

(* C14 (amended): device_configure_dif(id, addr, port) succeeds and stores   *)
(* addr and port on the lowest slot whose id field equals id, leaving every  *)
(* other slot unchanged, and fails with result 1, changing no binding, only  *)
(* if no slot's id field equals id. A slot no boot call has touched has id   *)
(* 0: a call with id 0 succeeds on the lowest such slot.                     *)
C14_ConfigureDif ==
  [][(pc = "created" /\ ret'.op = "configure_dif" /\ cfg_mode' = "db") =>
       LET M == {s \in Slots : task[s].dif = ret'.arg}
       IN  /\ (M # {}) =>
                 /\ ret'.rc = 0
                 /\ StoresBinding(CHOOSE i \in M : \A j \in M : i <= j)
           /\ (M = {}) => (ret'.rc = 1 /\ task' = task)]_vars

\* a binding stored for id 0 on a slot that no boot call registered
C14_Witness ==
  /\ ret.op = "configure_dif" /\ ret.arg = 0 /\ ret.rc = 0
  /\ \E s \in Slots : /\ Bit(rfm_on, s) = 0 /\ task[s].dif = 0
                        /\ task[s].addr # NoAddr
  /\ \E s \in Slots : Bit(rfm_on, s) = 1

\* the hardware operations of a start
StartHwOps == {"SYNC_reset_hr", "CNT_reset", "CNT_start", "DAQ_fifo_init",
               "SYNC_fifo_arming", "SYNC_reset_bcid", "SYNC_start_acq"}

\* the positions of a started or starting run
Starting == {"start_run", "dcc_inner", "dcc_read", "dcc_chk", "started"}

(* C15: if the local run file cannot be opened, device_start returns an      *)
(* error and aborts the start: no chip reset, no counter reset/start, no     *)
(* FIFO initialization or arming, no acquisition start, and neither          *)
(* trigger-mode start routine is entered (a start under way has its file).   *)
C15_NoStoreNoStart ==
  /\ [][(pc = "initialized" /\ pc' # pc /\ daq_file' = "null") =>
          /\ pc' = "start_failed"
          /\ ret' = Ret("start", 0, -1)
          /\ \A k \in 1 .. Len(ops') : ops'[k].op \notin StartHwOps
          /\ cycle_id' = cycle_id /\ dcc_cmd' = dcc_cmd]_vars
  /\ []((pc \in Starting \/ InLoop) => daq_file = "open")
  /\ []((pc = "start_failed" /\ daq_file = "null") =>
          \A k \in 1 .. Len(ops) : ops[k].op \notin StartHwOps)

\* a start that failed on the run file, on a device with an active module
C15_Witness ==
  /\ pc = "start_failed" /\ daq_file = "null" /\ ret = Ret("start", 0, -1)
  /\ rfm_on # 0 /\ g_state = 1

\* the positions of device_start_run_dcc's wait for the command word
DccWait == {"dcc_inner", "dcc_read", "dcc_chk"}

(* C16 (as stated): cancellation is a clean termination, not an error: when  *)
(* the flag is set while device_start (Dcc mode) waits for the reset-bunch-id*)
(* command, or while device_loop runs, the operation terminates without      *)
(* reporting an error result.                                                *)
C16_AsStated ==
  /\ [][(pc \in DccWait /\ g_state = 0 /\ pc' \notin DccWait) =>
          ret'.rc = 0]_vars
  /\ [][(InLoop /\ pc' = "loop_done") =>
          (g_state = 0 /\ ret' = ret /\ task' = task)]_vars

(* C16 (amended): when the flag is set while device_loop runs, device_loop   *)
(* returns without reporting an error (it has no result, and no task's       *)
(* result code is touched by the exit); when it is set while device_start    *)
(* (Dcc mode) waits for the reset-bunch-id command, device_start ends the    *)
(* wait and returns the error -1, the run file staying open.                 *)
C16_CancelResult ==
  /\ [][(pc \in DccWait /\ g_state = 0 /\ pc' \notin DccWait) =>
          /\ pc' = "start_failed"
          /\ ret' = Ret("start", 0, -1)
          /\ daq_file' = "open" /\ ops' = ops]_vars
  /\ [][(InLoop /\ pc' = "loop_done") =>
          (g_state = 0 /\ ret' = ret /\ task' = task)]_vars

\* a Dcc start cancelled in its wait, with an active module
C16_Witness ==
  /\ pc = "start_failed" /\ daq_file = "open" /\ g_state = 0
  /\ ret = Ret("start", 0, -1) /\ trig_mode = 0 /\ rfm_on # 0

\* device_initialize has returned the error of device_init_fpga: the FPGA was
\* reset and nothing after the poll loop was done
FpgaFailed ==
  pc = "init_failed" /\ mem_fd # 0 /\ ops = <<OpN("SYNC_reset_fpga")>>

(* C17: device_init_fpga returns the clock-not-locked failure only if no     *)
(* poll observed the PLL-lock flag set: whenever one of its reads of the     *)
(* flag finds the PLL locked, it returns success.                            *)
C17_LockMeansSuccess == FpgaFailed => ~pll_seen

\* the header acknowledgment of the exchange x was accepted
HeaderAckValid(x) ==
  Len(x.ev) >= 2 /\ x.ev[2].res = 4 /\ x.ev[2].data = <<65, 67, 75, 0>>

\* the number of recv calls of the exchange x
NbRecv(x) == Cardinality({k \in 1 .. Len(x.ev) : x.ev[k].op = "recv"})

(* C18 (as stated): in every DIF exchange whose header acknowledgment is     *)
(* valid, a second 4-byte acknowledgment is received and validated as the    *)
(* last step, whether or not a payload was sent; only the payload send is    *)
(* skipped when the declared length is 0.                                    *)
C18_AsStated ==
  (xchg.slot >= 0 /\ HeaderAckValid(xchg)) =>
     /\ NbRecv(xchg) = 2
     /\ xchg.ev[Len(xchg.ev)].op = "recv"
     /\ xchg.rc = (IF AckOk(<<0, 0, 0, 0>>, [n |-> xchg.ev[Len(xchg.ev)].res,
                                            data |-> xchg.ev[Len(xchg.ev)].data])
                     THEN 0 ELSE 1)

(* C18 (amended): in a DIF exchange whose header acknowledgment is valid, if *)
(* the declared length is 0 the exchange ends there with success: no payload *)
(* is sent and no second acknowledgment is received; if it is greater than 0 *)
(* the payload is sent and a second 4-byte acknowledgment is received and    *)
(* validated as the last step.                                              *)
C18_SecondAck ==
  (xchg.slot >= 0 /\ HeaderAckValid(xchg)) =>
     LET size == task[xchg.slot].end - task[xchg.slot].beg
         last == xchg.ev[Len(xchg.ev)]
     IN  IF size = 0
           THEN Len(xchg.ev) = 2 /\ xchg.rc = 0
           ELSE /\ Len(xchg.ev) = 4
                /\ xchg.ev[3].op = "send" /\ Len(xchg.ev[3].data) = size
                /\ last.op = "recv"
                /\ xchg.rc = (IF last.res = 4 /\ last.data = <<65, 67, 75, 0>>
                                THEN 0 ELSE 1)

\* an exchange for an empty window, ended after the header acknowledgment,
\* in a cycle where the other module had data
C18_Witness ==
  /\ xchg.slot = 1 /\ HeaderAckValid(xchg) /\ Len(xchg.ev) = 2 /\ xchg.rc = 0
  /\ task[1].end = task[1].beg /\ task[0].end > task[0].beg
  /\ xchg.ev[1].data = <<72, 68, 82, 0, 0, 0, 0, 0>>

\* l is: counters reset and started, the FIFO of each active module
\* initialized in ascending slot order, the FIFO armed
DccArmOps(l) ==
  LET n == Cardinality(Active(rfm_on)) IN
    /\ Len(l) = n + 3
    /\ l[1] = OpN("CNT_reset") /\ l[2] = OpN("CNT_start")
    /\ \A k \in 1 .. n : l[2 + k].op = "DAQ_fifo_init" /\ l[2 + k].arg \in Active(rfm_on)
    /\ \A j, k \in 1 .. n : j < k => l[2 + j].arg < l[2 + k].arg
    /\ l[n + 3] = OpN("SYNC_fifo_arming")

(* C19: in Dcc mode device_start resets and starts the counters, initializes *)
(* the FIFO of each active module and arms the FIFO, in that order, only     *)
(* after it has read the command word equal to the reset-bunch-id command;   *)
(* if the cancellation flag is set before, it returns without any of these   *)
(* hardware operations.                                                      *)
C19_ArmAfterResetBcid ==
  /\ [][(pc \in DccWait /\ ops' # ops) =>
          /\ pc = "dcc_chk" /\ pc' = "started"
          /\ dcc_cmd = CMD_RESET_BCID /\ g_state = 1
          /\ Len(ops') > Len(ops) /\ SubSeq(ops', 1, Len(ops)) = ops
          /\ DccArmOps(SubSeq(ops', Len(ops) + 1, Len(ops')))]_vars
  /\ [][(pc \in DccWait /\ pc' = "started") => ops' # ops]_vars
  /\ [][(pc = "dcc_chk" /\ g_state = 0 /\ pc' # pc) =>
          (pc' = "start_failed" /\ ops' = ops)]_vars
  /\ [][(trig_mode = 0 /\ pc' = "started" /\ pc # "started") => pc = "dcc_chk"]_vars

\* a Dcc run started with two active modules
C19_Witness ==
  /\ pc = "started" /\ trig_mode = 0 /\ rfm_on = 3 /\ g_state = 1
  /\ Len(ops) = 7 /\ ops[7] = OpN("SYNC_fifo_arming")
  /\ ops[5] = Op("DAQ_fifo_init", 0) /\ ops[6] = Op("DAQ_fifo_init", 1)

\* how many times the operation o is in the log l
NbOp(l, o) == Cardinality({k \in 1 .. Len(l) : l[k].op = o})

(* C20: in Soft mode every completed cycle issues the ramfull-extend         *)
(* acknowledgment exactly once, after ramfull was observed non-zero and      *)
(* before the FIFO-ready wait, and the acquisition-start command exactly     *)
(* once, after all active modules were streamed and before the next cycle's  *)
(* ramfull wait; the Dcc loop never issues the acquisition-start command.    *)
C20_SoftCycleOps ==
  /\ (trig_mode = 1 /\ pc = "loop_top" /\ cycle_id >= 1) =>
        /\ NbOp(ops, "SYNC_ramfull_ext") = 1 /\ NbOp(ops, "SYNC_start_acq") = 1
        /\ FirstOp(ops, "SYNC_ramfull") > 0
        /\ FirstOp(ops, "SYNC_ramfull") < FirstOp(ops, "SYNC_ramfull_ext")
        /\ FirstOp(ops, "SYNC_ramfull_ext") < FirstOp(ops, "SYNC_fifo_ready")
        /\ ops[Len(ops)].op = "SYNC_start_acq"
        /\ NbOp(ops, "device_daq_send_dif") = Cardinality(Active(rfm_on))
        /\ \A s \in Active(rfm_on) : Op("device_daq_send_dif", s) \in
                                        {ops[k] : k \in 1 .. Len(ops)}
  /\ (trig_mode = 1 /\ InLoop /\ pc # "loop_top") =>
        /\ NbOp(ops, "SYNC_start_acq") = 0
        /\ NbOp(ops, "SYNC_ramfull_ext") =
              (IF pc \in {"wait_start", "chk_start"} THEN 0 ELSE 1)
        /\ (pc = "wait_ready") => NbOp(ops, "SYNC_fifo_ready") = 0
  /\ (trig_mode = 0) => NbOp(ops, "SYNC_start_acq") = 0

\* two Soft-mode cycles completed with two active modules
C20_Witness ==
  /\ trig_mode = 1 /\ pc = "loop_top" /\ cycle_id = 2 /\ rfm_on = 3
  /\ NbOp(ops, "SYNC_ramfull_ext") = 1 /\ NbOp(ops, "device_daq_send_dif") = 2

\* the positions of the operation o in the log l
PosOf(l, o) == {k \in 1 .. Len(l) : l[k].op = o}

\* the slots the operation o was called on in the log l
SlotsOf(l, o) == {l[k].arg : k \in PosOf(l, o)}

\* the calls of o in the log l are on active slots, each once, ascending
AscendingActive(l, o) ==
  /\ SlotsOf(l, o) \subseteq Active(rfm_on)
  /\ \A j, k \in PosOf(l, o) : j < k => l[j].arg < l[k].arg

\* the start flag of the running variant
StartFlag == IF trig_mode = 0 THEN "SYNC_fpga_ro" ELSE "SYNC_ramfull"

\* the order of the steps of a cycle in the log l, up to the buffering
CycleOrderToBuffering(l) ==
  /\ l[1] = OpN("DAQ_reset_buffer") /\ NbOp(l, "DAQ_reset_buffer") = 1
  /\ \A k \in PosOf(l, "SYNC_fifo_ready") : \E j \in PosOf(l, StartFlag) : j < k
  /\ \A k \in PosOf(l, "device_daq_write_dif") :
        \E j \in PosOf(l, "SYNC_fifo_ready") : j < k
  /\ AscendingActive(l, "device_daq_write_dif")

\* the order of the steps of a cycle in the log l, from the acknowledgment on
CycleOrderFromAck(l) ==
  /\ NbOp(l, "SYNC_fifo_ack") <= 1
  /\ \A k \in PosOf(l, "SYNC_fifo_ack") :
        \A j \in PosOf(l, "device_daq_write_dif") : j < k
  /\ \A k \in PosOf(l, "device_daq_send_dif") :
        \E j \in PosOf(l, "SYNC_fifo_ack") : j < k
  /\ AscendingActive(l, "device_daq_send_dif")

(* C21: in each cycle of either loop variant the steps occur in the order:   *)
(* buffer cleared, start condition observed, FIFO-ready observed, buffering  *)
(* of the active modules in ascending slot order, exactly one FIFO           *)
(* acknowledgment, streaming of the active modules in ascending slot order;  *)
(* no module is buffered before both flags were observed, none is streamed   *)
(* before every active module was buffered, and an inactive module is never  *)
(* buffered nor streamed.                                                    *)
C21_CycleOrder ==
  (InLoop /\ pc # "loop_top") =>
     /\ CycleOrderToBuffering(ops)
     /\ CycleOrderFromAck(ops)
     /\ (PosOf(ops, "device_daq_send_dif") # {}) =>
           SlotsOf(ops, "device_daq_write_dif") = Active(rfm_on)

C23_StreamedHasConnection ==
  (xchg.slot >= 0) =>
     /\ task[xchg.slot].dif # 0
     /\ xchg.slot \in conn
     /\ \A k \in 1 .. Len(xchg.ev) : xchg.ev[k].sck = Fd(xchg.slot)

(* C24: a device_boot_rfm call that is rejected for a shaper mismatch leaves *)
(* the device unchanged: the active-module mask, the slot's id and shaper    *)
(* value, the device shaper value and the trigger mode are as before.        *)
C24_RejectedBootNoEffect ==
  [][(pc = "created" /\ ret'.op = "boot_rfm" /\ ret'.rc = -1
       /\ boot_all' = boot_all \cup {ret'.arg}) =>
       /\ rfm_on' = rfm_on
       /\ \A s \in Slots : task'[s].dif = task[s].dif
                            /\ task'[s].rshaper = task[s].rshaper
       /\ rshaper' = rshaper
       /\ trig_mode' = trig_mode]_vars

(* C25: a module's result code is only ever written with a non-zero value:   *)
(* once a DIF exchange of module k has failed (returned non-zero) in some    *)
(* cycle, the result code of module k stays non-zero for the rest of the     *)
(* run, however many later exchanges of module k succeed, and the result     *)
(* codes of the other modules are not changed by it.                         *)
C25_StickyResultCode ==
  /\ [][\A k \in Slots :
          /\ (task'[k].rc # task[k].rc) =>
                /\ task'[k].rc # 0
                /\ pc = "send" /\ xchg'.slot = k /\ xchg'.rc = task'[k].rc
          /\ (task[k].rc # 0) => task'[k].rc # 0]_vars
  /\ [][(pc = "send" /\ ops' # ops /\ pc' = "send" /\ xchg'.rc # 0) =>
          /\ task'[xchg'.slot].rc = xchg'.rc
          /\ \A j \in Slots \ {xchg'.slot} : task'[j].rc = task[j].rc]_vars

\* module 0's exchange succeeds in the second cycle after it failed in the
\* first, module 1 never having failed
C25_Witness ==
  /\ cycle_id = 1 /\ pc = "send" /\ rfm_on = 3
  /\ xchg.slot = 0 /\ xchg.rc = 0 /\ Len(xchg.ev) = 4
  /\ task[0].rc # 0 /\ task[1].rc = 0
====
